---- MODULE Spec2Model ----
(***************************************************************************)
(* EcoAgent: the extraction pipeline (classify -> severity -> report), the *)
(* JSON decoder, the rule-based severity engine and the report section     *)
(* parser, modelled from the Python sources.                               *)
(*                                                                         *)
(* Representation.                                                         *)
(*   - A Python str is a sequence of tokens (TLA+ strings), read as the    *)
(*     tokens joined by white space.  A token is a word, a marker          *)
(*     ("ERROR:", a code fence, a heading, ...) or the name of a JSON      *)
(*     document (JsonDocs) standing for that document's serialized text.   *)
(*   - A Python value is a record [t, s, n, l, d]: its type tag and the    *)
(*     payload of a str (s), a number or bool (n), a list (l), a dict (d). *)
(*   - An operation that can raise returns Ok(v) or Raised(msg).           *)
(***************************************************************************)
EXTENDS Integers, Sequences, FiniteSets, TLC

VARIABLES
    pc,        \* position of the run inside analyze_image
    inputs,    \* the arguments of analyze_image and the agent's verbose flag
    results,   \* the results dict analyze_image builds and returns
    calls,     \* the collaborator invocations of the run, in order, with replies
    decoded,   \* the texts the stages handed to parse_json_from_text
    clock,     \* the wall clock, in half seconds (datetime.now())
    dtext,     \* text harness: the text given to the decoder or the parser
    dres,      \* text harness: what the call returned
    rcls,      \* rule-engine harness: the classification given
    rres,      \* rule-engine harness: what the call returned
    shown,     \* what get_formatted_report returned for the run's record
    modules    \* the module-level tables (SEVERITY_LEVELS, WASTE_CATEGORIES)

vars == <<pc, inputs, results, calls, decoded, clock, dtext, dres, rcls, rres,
          shown, modules>>

----------------------------------------------------------------------------
(* Bounds of the model *)

\* longest text, in tokens, the decoder harness draws
MaxTextLen == 3
\* the clock runs from 0 to MaxClock
MaxClock == 2
MaxLadderLen == 6

----------------------------------------------------------------------------
(* Python values *)

NoDict == <<>>
PyNone == [t |-> "none", s |-> <<>>, n |-> 0, l |-> <<>>, d |-> NoDict]
PyBool(b) == [t |-> "bool", s |-> <<>>, n |-> IF b THEN 1 ELSE 0, l |-> <<>>, d |-> NoDict]
PyNum(k) == [t |-> "num", s |-> <<>>, n |-> k, l |-> <<>>, d |-> NoDict]
PyStr(w) == [t |-> "str", s |-> w, n |-> 0, l |-> <<>>, d |-> NoDict]
PyList(e) == [t |-> "list", s |-> <<>>, n |-> 0, l |-> e, d |-> NoDict]
PyDict(f) == [t |-> "dict", s |-> <<>>, n |-> 0, l |-> <<>>, d |-> f]
\* float('nan'), the value json.loads gives the constant NaN
PyNaN == [t |-> "float", s |-> <<"nan">>, n |-> 0, l |-> <<>>, d |-> NoDict]

Ok(v) == [exc |-> FALSE, val |-> v]
Raised(m) == [exc |-> TRUE, msg |-> m]

\* bool(v): None, False, 0, "", [] and {} are falsy
Truthy(v) ==
    CASE v.t = "none" -> FALSE
      [] v.t = "bool" -> v.n = 1
      [] v.t = "num"  -> v.n # 0
      [] v.t = "float" -> TRUE
      [] v.t = "str"  -> v.s # <<>>
      [] v.t = "list" -> v.l # <<>>
      [] v.t = "dict" -> DOMAIN v.d # {}

\* k in v, for a key k: dict membership, list membership, substring of a str;
\* a number or a bool is not iterable (TypeError)
PyIn(k, v) ==
    CASE v.t = "dict" -> Ok(k \in DOMAIN v.d)
      [] v.t = "list" -> Ok(\E i \in DOMAIN v.l : v.l[i] = PyStr(<<k>>))
      [] v.t = "str"  -> Ok(\E i \in DOMAIN v.s : v.s[i] = k)
      [] OTHER        -> Raised("TypeError")

\* v.get(k, default): only a dict has .get (AttributeError otherwise)
PyGet(v, k, default) ==
    IF v.t = "dict"
    THEN Ok(IF k \in DOMAIN v.d THEN v.d[k] ELSE default)
    ELSE Raised("AttributeError")

\* the dict {} as a record the code itself built
EmptyDict == [k \in {} |-> TRUE]

\* d.get(k, default) of a record the code itself built (always a dict)
DictGet(d, k, default) == IF k \in DOMAIN d THEN d[k] ELSE default

----------------------------------------------------------------------------
(* str methods, token by token *)

\* str.lower() of one token
LowerWord(w) ==
    CASE w = "Hazardous" -> "hazardous"
      [] w = "Plastic"   -> "plastic"
      [] w = "Paper/Cardboard" -> "paper/cardboard"
      [] w = "General litter/mixed waste" -> "general litter/mixed waste"
      [] w = "Unknown - Classification Failed" -> "unknown - classification failed"
      [] w = "Unable to classify waste due to an error. Please try again or provide a clearer image."
            -> "unable to classify waste due to an error. please try again or provide a clearer image."
      [] w = "LOW"       -> "low"
      [] w = "Critical"  -> "critical"
      [] OTHER           -> w

\* str.upper() of one token
UpperWord(w) ==
    CASE w = "critical" -> "CRITICAL"
      [] w = "Critical" -> "CRITICAL"
      [] w = "high"     -> "HIGH"
      [] w = "medium"   -> "MEDIUM"
      [] w = "low"      -> "LOW"
      [] w = "minimal"  -> "MINIMAL"
      [] w = "severe"   -> "SEVERE"
      [] w = "unknown"  -> "UNKNOWN"
      [] OTHER          -> w

Lower(s) == [i \in DOMAIN s |-> LowerWord(s[i])]
Upper(s) == [i \in DOMAIN s |-> UpperWord(s[i])]

\* v.lower() / v.upper(): only a str has them (AttributeError otherwise)
PyLower(v) == IF v.t = "str" THEN Ok(Lower(v.s)) ELSE Raised("AttributeError")
PyUpper(v) == IF v.t = "str" THEN Ok(Upper(v.s)) ELSE Raised("AttributeError")

\* s.startswith("ERROR:"): the sentinel is a token of its own
SENTINEL == "ERROR:"
StartsWithError(s) == Len(s) > 0 /\ s[1] = SENTINEL

----------------------------------------------------------------------------
(* JSON documents: the name of a document is the token that stands for its *)
(* serialized text; JsonDoc gives the value json.loads returns for it.     *)

NoteStr == PyStr(<<"ok">>)

JsonDoc ==
    [ J_flat   |-> PyDict([note |-> NoteStr]),
      J_nest2  |-> PyDict([outer |-> PyDict([note |-> NoteStr])]),
      J_nest3  |-> PyDict([top |-> PyDict([outer |-> PyDict([note |-> NoteStr])])]),
      J_empty  |-> PyDict(NoDict),
      J_arr    |-> PyList(<<PyNum(1), PyNum(2)>>),
      J_arrobj |-> PyList(<<PyDict([note |-> NoteStr])>>),
      J_num    |-> PyNum(42),
      J_str    |-> PyStr(<<"text">>),
      J_null   |-> PyNone,
      J_true   |-> PyBool(TRUE),
      J_nan    |-> PyNaN,
      \* the object of J_flat, serialized over several indented lines
      J_flat_pretty |-> PyDict([note |-> NoteStr]),
      \* classification responses
      J_cls_haz |-> PyDict([waste_type |-> PyStr(<<"Hazardous", "waste">>),
                            confidence |-> PyStr(<<"high">>),
                            description |-> PyStr(<<"leaking", "battery">>),
                            tags |-> PyList(<<PyStr(<<"battery">>)>>),
                            visible_items |-> PyList(<<PyStr(<<"battery">>)>>)]),
      J_cls_paper |-> PyDict([waste_type |-> PyStr(<<"single item", "paper">>),
                              confidence |-> PyStr(<<"low">>),
                              description |-> PyStr(<<"leaking", "battery">>)]),
      J_cls_small |-> PyDict([waste_type |-> PyStr(<<"Paper/Cardboard", "waste">>),
                              confidence |-> PyStr(<<"LOW">>),
                              description |-> PyStr(<<"small", "pile">>),
                              visible_items |-> PyList(<<>>)]),
      J_cls_plastic |-> PyDict([waste_type |-> PyStr(<<"Plastic", "waste">>),
                                confidence |-> PyStr(<<"unsure">>),
                                description |-> PyStr(<<"bottles">>)]),
      J_cls_nodesc |-> PyDict([waste_type |-> PyStr(<<"metal", "waste">>),
                               confidence |-> PyStr(<<"high">>)]),
      J_cls_numtype |-> PyDict([waste_type |-> PyNum(42),
                                confidence |-> PyStr(<<"high">>),
                                description |-> PyStr(<<"bottles">>)]),
      J_cls_numitems |-> PyDict([waste_type |-> PyStr(<<"Plastic", "waste">>),
                                 confidence |-> PyStr(<<"medium">>),
                                 description |-> PyStr(<<"bottles">>),
                                 visible_items |-> PyList(<<PyNum(1), PyNum(2)>>)]),
      \* severity responses
      J_sev_high |-> PyDict([severity |-> PyStr(<<"high">>),
                             severity_score |-> PyNum(4),
                             reasoning |-> PyStr(<<"near", "river">>)]),
      J_sev_crit |-> PyDict([severity |-> PyStr(<<"critical">>)]),
      J_sev_mismatch |-> PyDict([severity |-> PyStr(<<"critical">>),
                                 severity_score |-> PyNum(1)]),
      J_sev_severe |-> PyDict([severity |-> PyStr(<<"severe">>),
                               severity_score |-> PyNum(7)]),
      J_sev_numlevel |-> PyDict([severity |-> PyNum(5)]),
      J_sev_listlevel |-> PyDict([severity |-> PyList(<<PyStr(<<"high">>)>>)]),
      J_sev_nolevel |-> PyDict([severity_score |-> PyNum(4)]) ]

JsonDocs == DOMAIN JsonDoc

\* a brace group that is not JSON, such as {oops}
BADBRACES == "{bad}"
\* the code fence marker (three backticks), bare and tagged json
FENCE == "<fence>"
FENCEJSON == "<fence>json"

\* the order in which a document's keys are serialized
KeyOrder ==
    << "waste_type", "confidence", "description", "tags", "visible_items",
       "severity", "severity_score", "reasoning", "top", "outer", "note" >>

RECURSIVE BraceDepth(_)
\* nesting depth of the braces in the serialized text of v
BraceDepth(v) ==
    LET Max(S) == IF S = {} THEN 0 ELSE CHOOSE m \in S : \A x \in S : x <= m
    IN CASE v.t = "dict" -> 1 + Max({BraceDepth(v.d[k]) : k \in DOMAIN v.d})
         [] v.t = "list" -> Max({BraceDepth(v.l[i]) : i \in DOMAIN v.l})
         [] OTHER        -> 0

RECURSIVE BraceGroups(_)
RECURSIVE BraceGroupsOfKeys(_, _)
RECURSIVE BraceGroupsOfItems(_)
\* the matches of \{[^{}]*(?:\{[^{}]*\}[^{}]*)*\} inside the serialized text
\* of v, in order of appearance: the outermost brace groups of depth <= 2
BraceGroups(v) ==
    CASE v.t = "dict" ->
            IF BraceDepth(v) <= 2 THEN <<v>> ELSE BraceGroupsOfKeys(v.d, 1)
      [] v.t = "list" -> BraceGroupsOfItems(v.l)
      [] OTHER -> <<>>
BraceGroupsOfKeys(d, i) ==
    IF i > Len(KeyOrder) THEN <<>>
    ELSE (IF KeyOrder[i] \in DOMAIN d THEN BraceGroups(d[KeyOrder[i]]) ELSE <<>>)
         \o BraceGroupsOfKeys(d, i + 1)
BraceGroupsOfItems(l) ==
    IF l = <<>> THEN <<>> ELSE BraceGroups(Head(l)) \o BraceGroupsOfItems(Tail(l))

\* a brace group that json.loads rejects
Unparsable == [t |-> "invalid", s |-> <<>>, n |-> 0, l |-> <<>>, d |-> NoDict]

\* json.loads(text): Ok(value), or Raised for json.JSONDecodeError.  The text
\* is one JSON document exactly when it is a single document token.
json_loads(text) ==
    IF Len(text) = 1 /\ text[1] \in JsonDocs
    THEN Ok(JsonDoc[text[1]])
    ELSE Raised("JSONDecodeError")

BeginsWithBrace(tok) ==
    tok = BADBRACES \/ (tok \in JsonDocs /\ JsonDoc[tok].t = "dict")
EndsWithBrace(tok) == BeginsWithBrace(tok)
IsFenceOpen(tok) == tok \in {FENCE, FENCEJSON}
\* the closing marker also matches the first characters of the tagged one
IsFenceClose(tok) == tok \in {FENCE, FENCEJSON}

\* the group captured by the fence pattern when the match starts at token i:
\* lazily, up to the first closing brace that a fence marker follows
FencedGroupAt(text, i) ==
    LET ends == {j \in (i + 1)..(Len(text) - 1) :
                    EndsWithBrace(text[j]) /\ IsFenceClose(text[j + 1])}
    IN SubSeq(text, i + 1, CHOOSE m \in ends : \A x \in ends : m <= x)

\* re.findall(<fence>(?:json)?\s*(\{.*?\})\s*<fence>, text, re.DOTALL)[0:1]:
\* the captured group of the first match, as a sequence of 0 or 1 texts
FirstFencedBlock(text) ==
    LET starts == {i \in 1..(Len(text) - 2) :
                      /\ IsFenceOpen(text[i])
                      /\ BeginsWithBrace(text[i + 1])
                      /\ \E j \in (i + 1)..(Len(text) - 1) :
                            EndsWithBrace(text[j]) /\ IsFenceClose(text[j + 1])}
    IN IF starts = {} THEN <<>>
       ELSE <<FencedGroupAt(text, CHOOSE m \in starts : \A x \in starts : m <= x)>>

\* if matches: json.loads(matches[0]); only the first block is tried
parse_first_block(matches) ==
    IF matches = <<>> THEN Raised("no match") ELSE json_loads(matches[1])

RECURSIVE BraceCandidates(_)
\* re.findall(r'\{[^{}]*(?:\{[^{}]*\}[^{}]*)*\}', text, re.DOTALL) with each
\* match already given to json.loads: its value, or Unparsable
BraceCandidates(text) ==
    IF text = <<>> THEN <<>>
    ELSE (CASE Head(text) = BADBRACES -> <<Unparsable>>
            [] Head(text) \in JsonDocs -> BraceGroups(JsonDoc[Head(text)])
            [] OTHER -> <<>>)
         \o BraceCandidates(Tail(text))

\* the for loop of step 3: the first candidate that parses, else None
FirstParsable(cands) ==
    LET good == {i \in DOMAIN cands : cands[i] # Unparsable}
    IN IF good = {} THEN PyNone
       ELSE cands[CHOOSE i \in good : \A j \in good : i <= j]

\* the ladder: the whole text, else the first fenced block, else the brace
\* candidates in order
first_success(direct, fenced, candidates) ==
    IF ~direct.exc THEN direct.val
    ELSE IF ~fenced.exc THEN fenced.val
    ELSE FirstParsable(candidates)

parse_json_from_text(text) ==
    first_success(json_loads(text),
                  parse_first_block(FirstFencedBlock(text)),
                  BraceCandidates(text))

\* the documents whose text is the way json.dumps writes their value
CanonicalDocs == JsonDocs \ {"J_flat_pretty"}

\* json.dumps(v): the one-line serialization of v
json_dumps(v) == <<CHOOSE tok \in CanonicalDocs : JsonDoc[tok] = v>>

\* a == b for two values decoded separately: NaN differs from every float,
\* itself included
PyEq(a, b) == IF a.t = "float" \/ b.t = "float" THEN FALSE ELSE a = b

----------------------------------------------------------------------------
(* The rule-based severity engine *)

SEVERITY_LEVELS ==
    [ critical |-> [level |-> 5,
                    description |-> <<"Immediate threat to public health or environment">>,
                    response_time |-> <<"Immediate (within 24 hours)">>],
      high     |-> [level |-> 4,
                    description |-> <<"Significant environmental or health concern">>,
                    response_time |-> <<"Urgent (within 3 days)">>],
      medium   |-> [level |-> 3,
                    description |-> <<"Moderate concern requiring attention">>,
                    response_time |-> <<"Standard (within 1 week)">>],
      low      |-> [level |-> 2,
                    description |-> <<"Minor issue, routine cleanup needed">>,
                    response_time |-> <<"Regular schedule (within 2 weeks)">>],
      minimal  |-> [level |-> 1,
                    description |-> <<"Minimal impact, preventive action suggested">>,
                    response_time |-> <<"As resources permit">>] ]

WASTE_CATEGORIES ==
    << "Plastic waste", "Organic waste", "Electronic waste (e-waste)",
       "Metal waste", "Glass waste", "Paper/Cardboard waste", "Textile waste",
       "Hazardous waste (chemicals, batteries, etc.)", "Construction debris",
       "General litter/mixed waste", "Water pollution (oil, sewage, etc.)",
       "Air pollution (smoke, emissions)", "Other" >>

\* returns WASTE_CATEGORIES.copy(): a new list
get_waste_categories == WASTE_CATEGORIES

critical_keywords ==
    {"hazardous", "chemical", "toxic", "oil spill", "sewage", "battery", "medical"}
high_keywords ==
    {"e-waste", "electronic", "metal", "large amount", "widespread", "river", "water body"}
low_keywords == {"minimal", "small", "single item", "paper", "cardboard"}

RECURSIVE DocWords(_)
\* the words of the str values inside a JSON value
DocWords(v) ==
    CASE v.t = "str"  -> {v.s[i] : i \in DOMAIN v.s}
      [] v.t = "list" -> UNION {DocWords(v.l[i]) : i \in DOMAIN v.l}
      [] v.t = "dict" -> UNION {DocWords(v.d[k]) : k \in DOMAIN v.d}
      [] OTHER        -> {}

\* the keywords that occur as substrings of a lower-cased word
WordKeywords(w) ==
    CASE w \in critical_keywords \cup high_keywords \cup low_keywords -> {w}
      [] w = "paper/cardboard" -> {"paper", "cardboard"}
      [] w = "newspaper"       -> {"paper"}
      [] w = "metallic"        -> {"metal"}
      [] OTHER                 -> {}

\* the keywords that occur as substrings of a lower-cased token; the text of
\* a JSON document holds the words of its values
TokenKeywords(tok) ==
    IF tok \in JsonDocs
    THEN UNION {WordKeywords(LowerWord(w)) : w \in DocWords(JsonDoc[tok])}
    ELSE WordKeywords(tok)

\* any(keyword in s for keyword in keywords), s already lower-cased
AnyKeywordIn(keywords, s) ==
    \E i \in DOMAIN s : TokenKeywords(s[i]) \cap keywords # {}

\* [tag.lower() for tag in tags]: tags must be iterable and yield strs
TagsLower(tags) ==
    CASE tags.t = "list" ->
            IF \A i \in DOMAIN tags.l : tags.l[i].t = "str"
            THEN Ok([i \in DOMAIN tags.l |-> Lower(tags.l[i].s)])
            ELSE Raised("AttributeError")
      [] tags.t \in {"str", "dict"} -> Ok(<<>>)
      [] OTHER -> Raised("TypeError")

\* the chain with the low tier tested first: the variant the keyword
\* priority property must tell apart from the code
keyword_score_low_first(waste_type, description) ==
    IF AnyKeywordIn(low_keywords, waste_type) THEN 2
    ELSE IF AnyKeywordIn(low_keywords, description) THEN 2
    ELSE IF AnyKeywordIn(critical_keywords, waste_type) THEN 5
    ELSE IF AnyKeywordIn(critical_keywords, description) THEN 5
    ELSE IF AnyKeywordIn(high_keywords, waste_type) THEN 4
    ELSE IF AnyKeywordIn(high_keywords, description) THEN 4
    ELSE 3

\* the chain reading the waste type only: the variant the scenario
\* property must tell apart from the code
keyword_score_waste_type_only(waste_type, description) ==
    IF AnyKeywordIn(critical_keywords, waste_type) THEN 5
    ELSE IF AnyKeywordIn(high_keywords, waste_type) THEN 4
    ELSE IF AnyKeywordIn(low_keywords, waste_type) THEN 2
    ELSE 3

\* the chain read field by field, the waste type through every tier before
\* the description: the variant the tier order property must tell apart
\* from the code
keyword_score_field_by_field(waste_type, description) ==
    IF AnyKeywordIn(critical_keywords, waste_type) THEN 5
    ELSE IF AnyKeywordIn(high_keywords, waste_type) THEN 4
    ELSE IF AnyKeywordIn(low_keywords, waste_type) THEN 2
    ELSE IF AnyKeywordIn(critical_keywords, description) THEN 5
    ELSE IF AnyKeywordIn(high_keywords, description) THEN 4
    ELSE IF AnyKeywordIn(low_keywords, description) THEN 2
    ELSE 3

\* the if/elif chain over the keyword tiers
keyword_score(waste_type, description) ==
    IF AnyKeywordIn(critical_keywords, waste_type) THEN 5
    ELSE IF AnyKeywordIn(critical_keywords, description) THEN 5
    ELSE IF AnyKeywordIn({"hazardous"}, waste_type)
            \/ AnyKeywordIn(high_keywords, waste_type) THEN 4
    ELSE IF AnyKeywordIn(high_keywords, description) THEN 4
    ELSE IF AnyKeywordIn(low_keywords, waste_type) THEN 2
    ELSE IF AnyKeywordIn(low_keywords, description) THEN 2
    ELSE 3

\* the adjustment floored at 1 instead of 2: the variant the floor property
\* must tell apart from the code
confidence_adjust_floor1(confidence, score) ==
    IF confidence = <<"low">>
    THEN (IF score - 1 > 1 THEN score - 1 ELSE 1)
    ELSE score

\* the adjustment without a floor: the variant the score range property
\* must tell apart from the code
confidence_adjust_unfloored(confidence, score) ==
    IF confidence = <<"low">> THEN score - 1 ELSE score

\* if confidence == "low": severity_score = max(2, severity_score - 1)
confidence_adjust(confidence, score) ==
    IF confidence = <<"low">>
    THEN (IF score - 1 > 2 THEN score - 1 ELSE 2)
    ELSE score

\* the level name of a final score
level_of_score(score) ==
    IF score >= 5 THEN "critical"
    ELSE IF score >= 4 THEN "high"
    ELSE IF score = 2 THEN "low"
    ELSE IF score = 1 THEN "minimal"
    ELSE "medium"

estimate_severity_rule_based(classification) ==
    LET waste_type  == PyLower(DictGet(classification, "waste_type", PyStr(<<>>)))
        confidence  == PyLower(DictGet(classification, "confidence", PyStr(<<"low">>)))
        description == PyLower(DictGet(classification, "description", PyStr(<<>>)))
        tags        == TagsLower(DictGet(classification, "tags", PyList(<<>>)))
    IN IF waste_type.exc \/ confidence.exc \/ description.exc
       THEN Raised("AttributeError")
       ELSE IF tags.exc THEN Raised(tags.msg)
       ELSE LET severity_score ==
                    confidence_adjust(confidence.val,
                                      keyword_score(waste_type.val, description.val))
                severity_level == level_of_score(severity_score)
                severity_info  == SEVERITY_LEVELS[severity_level]
            IN Ok([ severity       |-> PyStr(<<severity_level>>),
                    severity_score |-> PyNum(severity_score),
                    description    |-> PyStr(severity_info.description),
                    response_time  |-> PyStr(severity_info.response_time),
                    method         |-> PyStr(<<"rule-based">>) ])

----------------------------------------------------------------------------
(* Collaborator responses.  A response is what call_nemotron_vlm or         *)
(* call_nemotron_llm returns: the error dict of a failed request, or the    *)
(* decoded body of a successful one (with or without choices[0].message,    *)
(* whose content is a str or null).                                         *)

ErrorResponse(message) ==
    [error |-> TRUE, message |-> message, choices |-> FALSE, content |-> PyNone]
BodyWithoutChoices ==
    [error |-> FALSE, message |-> <<>>, choices |-> FALSE, content |-> PyNone]
ContentResponse(content) ==
    [error |-> FALSE, message |-> <<>>, choices |-> TRUE, content |-> content]

extract_text_from_response(response) ==
    IF response.error
    THEN PyStr(<<SENTINEL>> \o response.message)
    ELSE IF response.choices
         THEN response.content
         ELSE PyStr(<<SENTINEL, "Failed to parse response">>)

----------------------------------------------------------------------------
(* Stage 1: classification *)

_create_fallback_classification(error_msg) ==
    [ waste_type    |-> PyStr(<<"Unknown - Classification Failed">>),
      confidence    |-> PyStr(<<"low">>),
      description   |-> PyStr(<<"Unable to classify waste due to an error. Please try again or provide a clearer image.">>),
      tags          |-> PyList(<<PyStr(<<"error">>), PyStr(<<"unclassified">>)>>),
      visible_items |-> PyList(<<>>),
      raw_response  |-> PyStr(error_msg),
      error         |-> PyBool(TRUE) ]

\* all(k in parsed_json for k in [...]): Ok(bool), or Raised by the first test
AllKeysIn(keys, v) ==
    IF PyIn(keys[1], v).exc
    THEN Raised("TypeError")
    ELSE Ok(\A i \in DOMAIN keys : PyIn(keys[i], v).val)

\* the else branch: the raw text kept as the description
minimal_classification(text_response) ==
    [ waste_type    |-> PyStr(<<"General litter/mixed waste">>),
      confidence    |-> PyStr(<<"low">>),
      description   |-> text_response,
      tags          |-> PyList(<<>>),
      visible_items |-> PyList(<<>>),
      raw_response  |-> text_response ]

\* the except branch of classify_waste
classification_exception(m) ==
    _create_fallback_classification(<<"Exception during classification:", m>>)

\* from the decoded value on: the required-fields test and the two results
classification_of(text_response, parsed_json) ==
    IF ~Truthy(parsed_json) THEN minimal_classification(text_response)
    ELSE IF PyIn("waste_type", parsed_json).exc THEN classification_exception("TypeError")
    ELSE IF ~AllKeysIn(<<"waste_type", "confidence", "description">>, parsed_json).val
    THEN minimal_classification(text_response)
    ELSE IF parsed_json.t # "dict" THEN classification_exception("AttributeError")
    ELSE [ waste_type    |-> parsed_json.d.waste_type,
           confidence    |-> parsed_json.d.confidence,
           description   |-> parsed_json.d.description,
           tags          |-> PyGet(parsed_json, "tags", PyList(<<>>)).val,
           visible_items |-> PyGet(parsed_json, "visible_items", PyList(<<>>)).val,
           raw_response  |-> text_response ]

\* classify_text without the sentinel test: the variant the short-circuit
\* properties must tell apart from the code
classify_text_unguarded(text_response) ==
    IF text_response.t # "str"
    THEN classification_exception("AttributeError")
    ELSE classification_of(text_response, parse_json_from_text(text_response.s))

\* from the extracted text on: the sentinel test, then the decoder
classify_text(text_response) ==
    IF text_response.t # "str"
    THEN classification_exception("AttributeError")
    ELSE IF StartsWithError(text_response.s)
    THEN _create_fallback_classification(text_response.s)
    ELSE classification_of(text_response, parse_json_from_text(text_response.s))

classify_waste(response) == classify_text(extract_text_from_response(response))

\* the texts a stage hands to parse_json_from_text: none when the extracted
\* text is no str (startswith raises) or starts with the sentinel
texts_decoded(text_response) ==
    IF text_response.t = "str" /\ ~StartsWithError(text_response.s)
    THEN <<text_response.s>>
    ELSE <<>>

classify_waste_decodes(response) ==
    texts_decoded(extract_text_from_response(response))

----------------------------------------------------------------------------
(* Stage 2: severity *)

\* v can be a dict key (lists and dicts are unhashable)
Hashable(v) == v.t \notin {"list", "dict"}

\* SEVERITY_LEVELS.get(severity_level, SEVERITY_LEVELS["medium"])
severity_info_of(severity_level) ==
    IF /\ severity_level.t = "str"
       /\ Len(severity_level.s) = 1
       /\ severity_level.s[1] \in DOMAIN SEVERITY_LEVELS
    THEN SEVERITY_LEVELS[severity_level.s[1]]
    ELSE SEVERITY_LEVELS["medium"]

\* the except branch: the rule-based result with the error recorded; an
\* exception of the rule engine itself propagates
severity_exception(rule_based, m) ==
    IF rule_based.exc THEN rule_based
    ELSE Ok([k \in DOMAIN rule_based.val \cup {"llm_error"} |->
                IF k = "llm_error" THEN PyStr(<<m>>) ELSE rule_based.val[k]])

\* the assessment built from a decoded object that has a severity
llm_assessment(parsed_json, severity_level, severity_info) ==
    [ severity |-> severity_level,
      severity_score |->
          PyGet(parsed_json, "severity_score", PyNum(severity_info.level)).val,
      description |-> PyStr(severity_info.description),
      response_time |-> PyStr(severity_info.response_time),
      reasoning |-> PyGet(parsed_json, "reasoning", PyStr(<<>>)).val,
      health_risk |->
          PyGet(parsed_json, "health_risk", PyStr(<<"Assessment pending">>)).val,
      environmental_impact |->
          PyGet(parsed_json, "environmental_impact", PyStr(<<"Assessment pending">>)).val,
      urgency_factors |-> PyGet(parsed_json, "urgency_factors", PyList(<<>>)).val,
      method |-> PyStr(<<"llm-based">>) ]

\* from the decoded value on
severity_of(parsed_json, rule_based) ==
    IF ~Truthy(parsed_json) THEN rule_based
    ELSE IF PyIn("severity", parsed_json).exc
    THEN severity_exception(rule_based, "TypeError")
    ELSE IF ~PyIn("severity", parsed_json).val THEN rule_based
    ELSE IF parsed_json.t # "dict"
    THEN severity_exception(rule_based, "AttributeError")
    ELSE IF ~Hashable(parsed_json.d.severity)
    THEN severity_exception(rule_based, "TypeError")
    ELSE Ok(llm_assessment(parsed_json, parsed_json.d.severity,
                           severity_info_of(parsed_json.d.severity)))

\* severity_of_text without the sentinel test: the variant the fallback
\* properties must tell apart from the code
severity_of_text_unguarded(text_response, rule_based) ==
    IF text_response.t # "str"
    THEN severity_exception(rule_based, "AttributeError")
    ELSE severity_of(parse_json_from_text(text_response.s), rule_based)

\* from the extracted text on: the sentinel test, then the decoder
severity_of_text(text_response, rule_based) ==
    IF text_response.t # "str"
    THEN severity_exception(rule_based, "AttributeError")
    ELSE IF StartsWithError(text_response.s)
    THEN rule_based
    ELSE severity_of(parse_json_from_text(text_response.s), rule_based)

estimate_severity_with_llm(classification, location, response) ==
    severity_of_text(extract_text_from_response(response),
                     estimate_severity_rule_based(classification))

estimate_severity_with_llm_decodes(response) ==
    texts_decoded(extract_text_from_response(response))

\* the tables when the severity record aliases its row of SEVERITY_LEVELS,
\* so that recording llm_error writes into the row: the variant the
\* no shared state property must tell apart from the code
tables_after_severity_aliased(tables, severity) ==
    IF ~severity.exc /\ "llm_error" \in DOMAIN severity.val
    THEN [tables EXCEPT !.SEVERITY_LEVELS[severity.val.severity.s[1]] =
             [k \in DOMAIN @ \cup {"llm_error"} |->
                 IF k = "llm_error" THEN severity.val.llm_error.s ELSE @[k]]]
    ELSE tables

\* the module tables after the severity stage: the record returned is a new
\* dict holding the row's strings, and result["llm_error"] = ... writes into
\* that dict, so the tables are as before
tables_after_severity(tables, severity) == tables

estimate_severity(classification, location, use_llm, response) ==
    IF use_llm
    THEN estimate_severity_with_llm(classification, location, response)
    ELSE estimate_severity_rule_based(classification)

----------------------------------------------------------------------------
(* Stage 3: the report.  In a narrative a heading token is a heading alias  *)
(* with the separator after it ("Summary:"), BLANK is a blank line, BOLD    *)
(* the ** marker and HASH a markdown heading marker ("# " or "## ").        *)

BLANK == "<blank>"
BOLD == "**"
HASH == "#"

SectionKeys ==
    {"executive_summary", "detailed_findings", "risk_assessment",
     "recommended_actions", "priority_level"}

\* the heading aliases of each pattern
Headings ==
    [ executive_summary   |-> {"Executive Summary:", "Summary:"},
      detailed_findings   |-> {"Detailed Findings:", "Findings:", "Observations:"},
      risk_assessment     |-> {"Risk Assessment:", "Risks:"},
      recommended_actions |-> {"Recommended Actions:", "Actions:", "Recommendations:"},
      priority_level      |-> {"Priority Level:", "Priority:"} ]

\* the lookahead that ends a capture at position j: (?=\n\n|\*\*|#{1,2}\s|$)
\* for the summary and the priority, (?=\n\n\*\*|#{1,2}\s|$) for the others
Boundary(key, text, j) ==
    \/ j > Len(text)
    \/ text[j] = HASH
    \/ IF key \in {"executive_summary", "priority_level"}
       THEN text[j] \in {BLANK, BOLD}
       ELSE text[j] = BLANK /\ j + 1 <= Len(text) /\ text[j + 1] = BOLD

RECURSIVE Strip(_)
\* str.strip(): blank lines at either end are white space
Strip(s) ==
    IF s = <<>> THEN s
    ELSE IF Head(s) = BLANK THEN Strip(Tail(s))
    ELSE IF s[Len(s)] = BLANK THEN Strip(SubSeq(s, 1, Len(s) - 1))
    ELSE s

\* re.search(pattern, report_text).group(1).strip(), "" when nothing matches
SectionCapture(key, text) ==
    LET heads == {i \in DOMAIN text : text[i] \in Headings[key]}
        Min(S) == CHOOSE m \in S : \A x \in S : m <= x
    IN IF heads = {} THEN <<>>
       ELSE LET i == Min(heads)
                \* [:\s]+ also takes the blank lines that follow the heading
                start == Min({j \in (i + 1)..(Len(text) + 1) :
                                 j > Len(text) \/ text[j] # BLANK})
                stop == Min({j \in start..(Len(text) + 1) : Boundary(key, text, j)})
            IN Strip(SubSeq(text, start, stop - 1))

\* the parser without its last step: the variant the never-dropped property
\* must tell apart from the code
_parse_report_sections_no_fallback(report_text) ==
    [key \in SectionKeys |-> SectionCapture(key, report_text)]

_parse_report_sections(report_text) ==
    LET sections == [key \in SectionKeys |-> SectionCapture(key, report_text)]
    IN IF \A key \in SectionKeys : sections[key] = <<>>
       THEN [sections EXCEPT !["executive_summary"] = report_text]
       ELSE sections

\* str(v) as an f-string formats it
Format(v) ==
    CASE v.t = "str"  -> v.s
      [] v.t = "num"  -> <<ToString(v.n)>>
      [] v.t = "none" -> <<"None">>
      [] v.t = "bool" -> <<IF v.n = 1 THEN "True" ELSE "False">>
      [] v.t = "float" -> <<"nan">>
      [] v.t = "list" -> <<"[list]">>
      [] v.t = "dict" -> <<"{dict}">>

\* datetime.now().strftime(...): the clock counts half seconds, the stamp
\* has whole seconds
strftime(t) == <<ToString(t \div 2)>>

\* ', '.join(v): v must be iterable and yield strs
JoinRaises(v) ==
    CASE v.t = "list" -> \E i \in DOMAIN v.l : v.l[i].t # "str"
      [] v.t \in {"str", "dict"} -> FALSE
      [] OTHER -> TRUE

_create_fallback_report(classification, severity, location, error_msg, t1, t2) ==
    LET waste_type == DictGet(classification, "waste_type", PyStr(<<"Unknown">>))
        severity_level == DictGet(severity, "severity", PyStr(<<"unknown">>))
        description ==
            DictGet(classification, "description", PyStr(<<"No description available">>))
        upper == PyUpper(severity_level)
    IN IF upper.exc THEN Raised("AttributeError")
       ELSE Ok([ report_id |-> <<"ECO-">> \o strftime(t2),
                 timestamp |-> strftime(t1),
                 location  |-> location,
                 waste_type |-> waste_type,
                 severity  |-> severity_level,
                 full_report |->
                     <<"ENVIRONMENTAL INCIDENT REPORT (Auto-Generated)", BLANK,
                       "Executive Summary:">> \o Format(waste_type)
                     \o <<"detected at">>
                     \o (IF location # <<>> THEN location ELSE <<"unspecified location">>)
                     \o <<"with">> \o Format(severity_level) \o <<"severity level.", BLANK,
                       "Detailed Findings:">> \o Format(description) \o <<BLANK,
                       "Risk Assessment:">> \o upper.val \o <<BLANK,
                       "Recommended Actions:", "Dispatch appropriate cleanup crew", BLANK,
                       "Priority Level:">> \o upper.val \o <<BLANK,
                       "Note: This is an auto-generated report. Manual review recommended.">>,
                 sections |->
                     [ executive_summary |->
                           PyStr(Format(waste_type) \o <<"detected with">>
                                 \o Format(severity_level) \o <<"severity">>),
                       detailed_findings |-> description,
                       risk_assessment |-> PyStr(upper.val \o <<"priority">>),
                       recommended_actions |->
                           PyStr(<<"Standard cleanup and assessment required">>),
                       priority_level |-> PyStr(upper.val) ],
                 metadata |->
                     [ classification_confidence |->
                           DictGet(classification, "confidence", PyNone),
                       severity_score |-> DictGet(severity, "severity_score", PyNone),
                       response_time |-> DictGet(severity, "response_time", PyNone),
                       is_fallback |-> PyBool(TRUE),
                       error |-> PyStr(error_msg) ] ])

\* building the context block, before the try: Raised when the join raises
report_context(classification) ==
    IF JoinRaises(DictGet(classification, "visible_items", PyList(<<>>)))
    THEN Raised("TypeError")
    ELSE Ok(TRUE)

\* the report built from the narrative the collaborator returned
parsed_report(classification, severity, location, report_text, parsed, t1, t2) ==
    [ report_id |-> <<"ECO-">> \o strftime(t2),
      timestamp |-> strftime(t1),
      location  |-> location,
      waste_type |-> DictGet(classification, "waste_type", PyNone),
      severity  |-> DictGet(severity, "severity", PyNone),
      full_report |-> report_text,
      sections  |-> [key \in SectionKeys |-> PyStr(parsed[key])],
      metadata  |->
          [ classification_confidence |-> DictGet(classification, "confidence", PyNone),
            severity_score |-> DictGet(severity, "severity_score", PyNone),
            response_time |-> DictGet(severity, "response_time", PyNone) ] ]

\* the try block, from the extracted text on; in the except branch an
\* exception of the fallback itself propagates
report_of_text(classification, severity, location, report_text, t1, t2) ==
    IF report_text.t # "str"
    THEN _create_fallback_report(classification, severity, location,
            <<"Exception during report generation:", "AttributeError">>, t1, t2)
    ELSE IF StartsWithError(report_text.s)
    THEN _create_fallback_report(classification, severity, location,
                                 report_text.s, t1, t2)
    ELSE Ok(parsed_report(classification, severity, location, report_text.s,
                          _parse_report_sections(report_text.s), t1, t2))

generate_civic_report(classification, severity, location, response, t1, t2) ==
    IF report_context(classification).exc
    THEN Raised("TypeError")
    ELSE report_of_text(classification, severity, location,
                        extract_text_from_response(response), t1, t2)

\* the fixed layout: the header lines, the five section blocks in order,
\* the metadata block; a missing entry shows its default
format_report_for_display(report) ==
    <<"ENVIRONMENTAL INCIDENT REPORT", "Report ID:">>
    \o DictGet(report, "report_id", <<"N/A">>)
    \o <<"Timestamp:">> \o DictGet(report, "timestamp", <<"N/A">>)
    \o <<"Location:">> \o DictGet(report, "location", <<"Not specified">>)
    \o <<"EXECUTIVE SUMMARY">>
    \o Format(DictGet(DictGet(report, "sections", EmptyDict),
                      "executive_summary", PyStr(<<"Not available">>)))
    \o <<"DETAILED FINDINGS">>
    \o Format(DictGet(DictGet(report, "sections", EmptyDict),
                      "detailed_findings", PyStr(<<"Not available">>)))
    \o <<"RISK ASSESSMENT">>
    \o Format(DictGet(DictGet(report, "sections", EmptyDict),
                      "risk_assessment", PyStr(<<"Not available">>)))
    \o <<"RECOMMENDED ACTIONS">>
    \o Format(DictGet(DictGet(report, "sections", EmptyDict),
                      "recommended_actions", PyStr(<<"Not available">>)))
    \o <<"PRIORITY LEVEL:">>
    \o Format(DictGet(DictGet(report, "sections", EmptyDict),
                      "priority_level", PyStr(<<"MEDIUM">>)))
    \o <<"Metadata:", "- Classification Confidence:">>
    \o Format(DictGet(DictGet(report, "metadata", EmptyDict),
                      "classification_confidence", PyStr(<<"N/A">>)))
    \o <<"- Severity Score:">>
    \o Format(DictGet(DictGet(report, "metadata", EmptyDict),
                      "severity_score", PyStr(<<"N/A">>)))
    \o <<"/5", "- Expected Response Time:">>
    \o Format(DictGet(DictGet(report, "metadata", EmptyDict),
                      "response_time", PyStr(<<"N/A">>)))

\* get_formatted_report without its two tests: the variant the no partial
\* rendering property must tell apart from the code
get_formatted_report_unchecked(results_) ==
    PyStr(format_report_for_display(DictGet(results_.steps, "report", EmptyDict)))

\* None unless the run is complete and holds a report
get_formatted_report(results_) ==
    IF results_.status # "complete" THEN PyNone
    ELSE IF "report" \notin DOMAIN results_.steps THEN PyNone
    ELSE PyStr(format_report_for_display(results_.steps["report"]))

----------------------------------------------------------------------------
(* The orchestrator: EcoAgent.analyze_image, one action per pipeline step *)

Images == {"readable", "unreadable"}
Locations == {<<>>, <<"Riverside">>}

\* an encoder that hands back a payload for every image: the variant the
\* input failure property must tell apart from the code
encode_image_to_base64_lenient(image) == Ok(<<"base64">>)

encode_image_to_base64(image) ==
    IF image = "readable"
    THEN Ok(<<"base64">>)
    ELSE Raised(<<"Failed to encode image:", "cannot identify image file">>)

ClassifyTexts ==
    { <<"J_cls_haz">>, <<"J_cls_paper">>, <<"J_cls_small">>, <<"J_cls_plastic">>,
      <<"J_cls_nodesc">>, <<"J_cls_numtype">>, <<"J_cls_numitems">>,
      <<FENCEJSON, "J_cls_haz", FENCE>>, <<"note", "J_cls_paper">>,
      <<"toxic", "note">>, <<"note">>, <<"J_num">>, <<"J_arr">>, <<>>,
      <<SENTINEL, "note">> }
SeverityTexts ==
    { <<"J_sev_high">>, <<"J_sev_crit">>, <<"J_sev_mismatch">>, <<"J_sev_severe">>,
      <<"J_sev_numlevel">>, <<"J_sev_listlevel">>, <<"J_sev_nolevel">>,
      <<"note", "J_sev_high">>, <<"note">>, <<"J_num">>, <<SENTINEL, "J_sev_high">> }
ReportTexts ==
    { <<>>, <<"note">>,
      <<"Executive Summary:", "note", BLANK, BOLD, "Findings:", "note", BLANK,
        BOLD, "Risks:", "note", BLANK, BOLD, "Actions:", "note", BLANK,
        "Priority:", "HIGH">>,
      <<BOLD, "Summary:", BOLD>>,
      <<SENTINEL, "note">> }

\* what a collaborator can return for a set of texts
Responses(texts, failure) ==
    {ErrorResponse(failure), BodyWithoutChoices, ContentResponse(PyNone)}
    \cup {ContentResponse(PyStr(t)) : t \in texts}

ClassifyResponses == Responses(ClassifyTexts, <<"VLM API call failed">>)
SeverityResponses == Responses(SeverityTexts, <<"LLM API call failed">>)
ReportResponses == Responses(ReportTexts, <<"LLM API call failed">>)

\* no collaborator was asked
NoResponse == BodyWithoutChoices

EmptySteps == [k \in {} |-> TRUE]
WithKey(f, key, v) == [k \in DOMAIN f \cup {key} |-> IF k = key THEN v ELSE f[k]]

\* an except branch that sets the status and records no message: the
\* variant the returned record property must tell apart from the code
Failed_without_message(res, msg) == [res EXCEPT !.status = "error"]

\* the except branch of analyze_image
Failed(res, msg) ==
    WithKey([res EXCEPT !.status = "error"], "error", msg)

\* the module-level tables as the modules define them
ModuleTables ==
    [SEVERITY_LEVELS |-> SEVERITY_LEVELS, WASTE_CATEGORIES |-> WASTE_CATEGORIES]

\* get_formatted_report has not been called
NotShown == [called |-> FALSE]

HarnessIdle ==
    /\ dtext = <<>>
    /\ dres = [via |-> "idle"]
    /\ rcls = EmptySteps
    /\ rres = [done |-> FALSE]

Init ==
    /\ pc = "encode"
    /\ inputs \in [image : Images, location : Locations,
                   use_llm_severity : BOOLEAN, verbose : BOOLEAN]
    /\ results = [status |-> "in_progress", steps |-> EmptySteps]
    /\ calls = <<>>
    /\ decoded = <<>>
    /\ clock = 0
    /\ shown = NotShown
    /\ modules = ModuleTables
    /\ HarnessIdle

Tick ==
    /\ pc \in {"encode", "classify", "severity", "report"}
    /\ clock < MaxClock
    /\ clock' = clock + 1
    /\ UNCHANGED <<pc, inputs, results, calls, decoded, dtext, dres, rcls, rres, shown, modules>>

Encode ==
    /\ pc = "encode"
    /\ LET image_base64 == encode_image_to_base64(inputs.image)
       IN IF image_base64.exc
          THEN /\ results' = Failed(results, image_base64.msg)
               /\ pc' = "returned"
          ELSE /\ results' = [results EXCEPT !.steps =
                                 WithKey(@, "encoding", [status |-> "success"])]
               /\ pc' = "classify"
    /\ UNCHANGED <<inputs, calls, decoded, clock, dtext, dres, rcls, rres, shown, modules>>

Classify ==
    /\ pc = "classify"
    /\ \E response \in ClassifyResponses :
          /\ calls' = Append(calls, [to |-> "classify", reply |-> response])
          /\ decoded' = decoded \o classify_waste_decodes(response)
          /\ results' = [results EXCEPT !.steps =
                            WithKey(@, "classification", classify_waste(response))]
    /\ pc' = "severity"
    /\ UNCHANGED <<inputs, clock, dtext, dres, rcls, rres, shown, modules>>

\* the severity step with a failed request sent a second time: the variant
\* the single-attempt property must tell apart from the code
SeverityReturnRetried(response, severity) ==
    /\ modules' = tables_after_severity(modules, severity)
    /\ calls' = IF ~inputs.use_llm_severity THEN calls
                ELSE IF response.error
                THEN calls \o << [to |-> "severity", reply |-> response],
                                 [to |-> "severity", reply |-> response] >>
                ELSE Append(calls, [to |-> "severity", reply |-> response])
    /\ decoded' = IF inputs.use_llm_severity
                  THEN decoded \o estimate_severity_with_llm_decodes(response)
                  ELSE decoded
    /\ IF severity.exc
       THEN /\ results' = Failed(results, <<severity.msg>>)
            /\ pc' = "returned"
       ELSE IF inputs.verbose /\ PyUpper(severity.val.severity).exc
       THEN /\ results' = Failed([results EXCEPT !.steps =
                                     WithKey(@, "severity", severity.val)],
                                 <<"AttributeError">>)
            /\ pc' = "returned"
       ELSE /\ results' = [results EXCEPT !.steps =
                              WithKey(@, "severity", severity.val)]
            /\ pc' = "report"

\* from the return of estimate_severity to the end of the step
SeverityReturn(response, severity) ==
    /\ modules' = tables_after_severity(modules, severity)
    /\ calls' = IF inputs.use_llm_severity
                THEN Append(calls, [to |-> "severity", reply |-> response])
                ELSE calls
    /\ decoded' = IF inputs.use_llm_severity
                  THEN decoded \o estimate_severity_with_llm_decodes(response)
                  ELSE decoded
    /\ IF severity.exc
       THEN /\ results' = Failed(results, <<severity.msg>>)
            /\ pc' = "returned"
       \* the verbose print calls severity.get('severity').upper()
       ELSE IF inputs.verbose /\ PyUpper(severity.val.severity).exc
       THEN /\ results' = Failed([results EXCEPT !.steps =
                                     WithKey(@, "severity", severity.val)],
                                 <<"AttributeError">>)
            /\ pc' = "returned"
       ELSE /\ results' = [results EXCEPT !.steps =
                              WithKey(@, "severity", severity.val)]
            /\ pc' = "report"

Severity ==
    /\ pc = "severity"
    /\ \E response \in (IF inputs.use_llm_severity
                        THEN SeverityResponses ELSE {NoResponse}) :
          SeverityReturn(response,
                         estimate_severity(results.steps["classification"],
                                           inputs.location,
                                           inputs.use_llm_severity, response))
    /\ UNCHANGED <<inputs, clock, dtext, dres, rcls, rres, shown>>

\* from the return of generate_civic_report to the end of analyze_image
ReportReturn(response, report) ==
    /\ calls' = IF report_context(results.steps["classification"]).exc
                THEN calls
                ELSE Append(calls, [to |-> "report", reply |-> response])
    /\ IF report.exc
       THEN results' = Failed(results, <<report.msg>>)
       ELSE results' =
               WithKey([results EXCEPT
                           !.steps = WithKey(@, "report", report.val),
                           !.status = "complete"],
                       "summary",
                       [ report_id |-> report.val.report_id,
                         waste_type |-> results.steps["classification"].waste_type,
                         severity |-> results.steps["severity"].severity,
                         location |-> inputs.location ])
    /\ pc' = "returned"

Report ==
    /\ pc = "report"
    /\ \E response \in ReportResponses, t2 \in {clock, clock + 1} :
          /\ t2 <= MaxClock
          /\ clock' = t2
          /\ ReportReturn(response,
                          generate_civic_report(results.steps["classification"],
                                                results.steps["severity"],
                                                inputs.location, response, clock, t2))
    /\ UNCHANGED <<inputs, decoded, dtext, dres, rcls, rres, shown, modules>>

\* EcoAgent.get_formatted_report on the record the run returned
Render ==
    /\ pc = "returned"
    /\ pc' = "rendered"
    /\ shown' = [called |-> TRUE, text |-> get_formatted_report(results)]
    /\ UNCHANGED <<inputs, results, calls, decoded, clock, dtext, dres, rcls, rres, modules>>

Next == Tick \/ Encode \/ Classify \/ Severity \/ Report \/ Render

Spec == Init /\ [][Next]_vars

----------------------------------------------------------------------------
(* The decoder harness: parse_json_from_text called directly on a text, and  *)
(* reached through the two stages that use it, for every text of up to       *)
(* MaxTextLen tokens.                                                        *)

TextTokens ==
    { SENTINEL, "note", FENCE, FENCEJSON, BADBRACES,
      "J_flat", "J_nest2", "J_nest3", "J_empty", "J_arr", "J_arrobj",
      "J_num", "J_str", "J_null", "J_true", "J_cls_haz", "J_sev_high",
      "J_nan", "J_flat_pretty" }

Texts == UNION {[1..n -> TextTokens] : n \in 0..MaxTextLen}

\* how a text reaches a stage: as the content of a successful reply, or as
\* the message of a failed request
StageResponses(text) == {ContentResponse(PyStr(text)), ErrorResponse(text)}

\* the classification the severity stage is given in the harness
HarnessClassification == minimal_classification(PyStr(<<"toxic", "note">>))

\* no run of analyze_image is in progress
PipelineIdle ==
    /\ pc = "harness"
    /\ inputs = [image |-> "readable", location |-> <<>>,
                 use_llm_severity |-> TRUE, verbose |-> FALSE]
    /\ results = [status |-> "in_progress", steps |-> EmptySteps]
    /\ calls = <<>>
    /\ decoded = <<>>
    /\ clock = 0
    /\ shown = NotShown
    /\ modules = ModuleTables

InitDecode ==
    /\ PipelineIdle
    /\ dtext \in Texts
    /\ dres = [via |-> "idle"]
    /\ rcls = EmptySteps
    /\ rres = [done |-> FALSE]

DecodeDirect ==
    /\ dres.via = "idle"
    /\ dres' = [via |-> "direct", val |-> parse_json_from_text(dtext)]
    /\ UNCHANGED <<pc, inputs, results, calls, decoded, clock, dtext, rcls, rres, shown, modules>>

DecodeInClassify ==
    /\ dres.via = "idle"
    /\ \E response \in StageResponses(dtext) :
          dres' = [via |-> "classify",
                   text |-> extract_text_from_response(response),
                   decodes |-> classify_waste_decodes(response),
                   val |-> classify_waste(response)]
    /\ UNCHANGED <<pc, inputs, results, calls, decoded, clock, dtext, rcls, rres, shown, modules>>

DecodeInSeverity ==
    /\ dres.via = "idle"
    /\ \E response \in StageResponses(dtext) :
          dres' = [via |-> "severity",
                   text |-> extract_text_from_response(response),
                   decodes |-> estimate_severity_with_llm_decodes(response),
                   val |-> estimate_severity_with_llm(HarnessClassification,
                                                      <<>>, response)]
    /\ UNCHANGED <<pc, inputs, results, calls, decoded, clock, dtext, rcls, rres, shown, modules>>

\* the result of a direct call, serialized and decoded again
DecodeAgain ==
    /\ dres.via = "direct"
    /\ dres.val # PyNone
    /\ dres' = [via |-> "again", val |-> dres.val,
                dumped |-> json_dumps(dres.val),
                again |-> parse_json_from_text(json_dumps(dres.val))]
    /\ UNCHANGED <<pc, inputs, results, calls, decoded, clock, dtext, rcls, rres, shown, modules>>

NextDecode == DecodeDirect \/ DecodeInClassify \/ DecodeInSeverity \/ DecodeAgain

SpecDecode == InitDecode /\ [][NextDecode]_vars

----------------------------------------------------------------------------
(* The rule-engine harness: estimate_severity_rule_based on every            *)
(* classification built from the field values below, a field being absent,   *)
(* well typed or ill typed.                                                  *)

Absent == [t |-> "absent", s |-> <<>>, n |-> 0, l |-> <<>>, d |-> NoDict]

RuleWasteTypes ==
    { PyStr(<<"Hazardous", "waste">>), PyStr(<<"metal", "waste">>),
      PyStr(<<"Paper/Cardboard", "waste">>), PyStr(<<"single item">>),
      PyStr(<<"Plastic", "waste">>), PyNum(42), Absent,
      PyStr(<<"toxic", "paper">>), PyStr(<<"single item", "paper">>) }
RuleConfidences ==
    { PyStr(<<"low">>), PyStr(<<"LOW">>), PyStr(<<"medium">>), PyStr(<<"high">>),
      PyNone, Absent }
RuleDescriptions ==
    { PyStr(<<>>), PyStr(<<"leaking", "battery">>), PyStr(<<"near", "river">>),
      PyStr(<<"small", "pile">>), PyStr(<<"bottles">>), Absent }
RuleTags ==
    { PyList(<<>>), PyList(<<PyStr(<<"toxic">>)>>), PyList(<<PyNum(1)>>), Absent }

\* the dict that holds the fields that are present
ClassificationOf(f) == [k \in {x \in DOMAIN f : f[x] # Absent} |-> f[k]]

RuleClassifications ==
    { ClassificationOf(f) :
         f \in [waste_type : RuleWasteTypes, confidence : RuleConfidences,
                description : RuleDescriptions, tags : RuleTags] }

InitRules ==
    /\ PipelineIdle
    /\ dtext = <<>>
    /\ dres = [via |-> "idle"]
    /\ rcls \in RuleClassifications
    /\ rres = [done |-> FALSE]

ScoreRuleBased ==
    /\ ~rres.done
    /\ rres' = [done |-> TRUE, via |-> "rule_based",
                out |-> estimate_severity_rule_based(rcls)]
    /\ UNCHANGED <<pc, inputs, results, calls, decoded, clock, dtext, dres, rcls, shown, modules>>

ScoreViaEstimate ==
    /\ ~rres.done
    /\ rres' = [done |-> TRUE, via |-> "estimate",
                out |-> estimate_severity(rcls, <<>>, FALSE, NoResponse)]
    /\ UNCHANGED <<pc, inputs, results, calls, decoded, clock, dtext, dres, rcls, shown, modules>>

NextRules == ScoreRuleBased \/ ScoreViaEstimate

SpecRules == InitRules /\ [][NextRules]_vars

----------------------------------------------------------------------------
(* What a run shows about its collaborators' replies *)

\* the reply of the i-th collaborator invocation signalled failure: the text
\* extracted from it starts with the sentinel
SignalledFailure(i) ==
    /\ extract_text_from_response(calls[i].reply).t = "str"
    /\ StartsWithError(extract_text_from_response(calls[i].reply).s)

\* the reply of the i-th invocation is a successful one with a content string
Successful(i) ==
    /\ ~calls[i].reply.error
    /\ calls[i].reply.choices
    /\ calls[i].reply.content.t = "str"

ClassifierSignalledFailure ==
    Len(calls) >= 1 /\ calls[1].to = "classify" /\ SignalledFailure(1)

\* the run made its report invocation (always the last one of a run)
ReportInvoked == Len(calls) >= 2 /\ calls[Len(calls)].to = "report"

\* the run made its model-based severity invocation (the second one) and
\* recorded the stage's assessment
SeverityInvoked ==
    /\ Len(calls) >= 2
    /\ calls[2].to = "severity"
    /\ "severity" \in DOMAIN results.steps

\* the failure mode of the model-based severity path for a decoded value
failure_mode_of_value(parsed_json) ==
    IF ~Truthy(parsed_json) THEN "decode"
    ELSE IF parsed_json.t \in {"num", "bool", "float"} THEN "exception"
    ELSE IF ~PyIn("severity", parsed_json).val THEN "missing"
    ELSE IF parsed_json.t # "dict" THEN "exception"
    ELSE IF ~Hashable(parsed_json.d.severity) THEN "exception"
    ELSE "none"

\* the failure mode for an extracted text
failure_mode_of_text(text_response) ==
    IF text_response.t # "str" THEN "exception"
    ELSE IF StartsWithError(text_response.s) THEN "call"
    ELSE failure_mode_of_value(parse_json_from_text(text_response.s))

\* the failure mode of the run's severity invocation, "none" when it succeeded
SeverityFailureMode ==
    failure_mode_of_text(extract_text_from_response(calls[2].reply))

\* the rule engine's record for the run's classification
RuleBasedOfRun == estimate_severity_rule_based(results.steps["classification"]).val

----------------------------------------------------------------------------
(* Claims *)

\* C1: when the classification collaborator returns the failure signal, the
\* run ends with status "error" and neither the severity stage nor the
\* report stage is executed.
C1_ClassificationFailureAborts ==
    ClassifierSignalledFailure =>
        /\ "severity" \notin DOMAIN results.steps
        /\ "report" \notin DOMAIN results.steps
        /\ \A i \in DOMAIN calls : calls[i].to = "classify"
        /\ (pc = "returned" => results.status = "error")

\* C2: when the report-drafting collaborator returns the failure signal, for
\* every classification and severity assessment, the run ends "complete" with
\* a report whose metadata has is_fallback = true and the error text, and
\* whose priority_level is the upper-cased severity level.
C2_ReportFailureFallsBack ==
    (pc = "returned" /\ ReportInvoked /\ SignalledFailure(Len(calls))) =>
        /\ results.status = "complete"
        /\ "report" \in DOMAIN results.steps
        /\ "is_fallback" \in DOMAIN results.steps["report"].metadata
        /\ results.steps["report"].metadata.is_fallback = PyBool(TRUE)
        /\ results.steps["report"].metadata.error =
              extract_text_from_response(calls[Len(calls)].reply)
        /\ results.steps["report"].sections.priority_level =
              PyStr(Upper(results.steps["severity"].severity.s))

\* C3 as stated: every failure mode of the model-based severity path yields
\* exactly the record the rule engine returns for the classification, with no
\* field that reveals which failure occurred.
C3_FailureModesIndistinguishable ==
    (SeverityInvoked /\ SeverityFailureMode # "none") =>
        results.steps["severity"] = RuleBasedOfRun

\* C3, amended: every failure mode yields the rule engine's record (level,
\* score, description, response time, method "rule-based"); when the failure
\* is an exception raised while handling the response, the record carries
\* one more field, llm_error, and in no other failure mode does it.
C3_FailureModesFallBackToRules ==
    (SeverityInvoked /\ SeverityFailureMode # "none") =>
        /\ \A k \in DOMAIN RuleBasedOfRun :
              /\ k \in DOMAIN results.steps["severity"]
              /\ results.steps["severity"][k] = RuleBasedOfRun[k]
        /\ results.steps["severity"].method = PyStr(<<"rule-based">>)
        /\ DOMAIN results.steps["severity"] =
              DOMAIN RuleBasedOfRun \cup
                 (IF SeverityFailureMode = "exception" THEN {"llm_error"} ELSE {})

\* a run whose severity invocation failed by an exception and one more field
\* records it
C3_Witness ==
    /\ SeverityInvoked
    /\ SeverityFailureMode = "exception"
    /\ "llm_error" \in DOMAIN results.steps["severity"]
    /\ results.steps["severity"].severity = RuleBasedOfRun.severity

\* C4: every severity assessment returned by estimate_severity has a level
\* among the five names, an integer score in 1..5, and the score is the
\* level's value in the fixed table.
C4_LevelAndScoreConsistent ==
    "severity" \in DOMAIN results.steps =>
        /\ results.steps["severity"].severity.t = "str"
        /\ Len(results.steps["severity"].severity.s) = 1
        /\ results.steps["severity"].severity.s[1] \in DOMAIN SEVERITY_LEVELS
        /\ results.steps["severity"].severity_score.t = "num"
        /\ results.steps["severity"].severity_score.n \in 1..5
        /\ results.steps["severity"].severity_score.n =
              SEVERITY_LEVELS[results.steps["severity"].severity.s[1]].level

\* C5: for every input text parse_json_from_text returns None or a JSON
\* object, never an array, number, string or boolean.
C5_DecoderReturnsObjectOrNone ==
    dres.via = "direct" => dres.val.t \in {"none", "dict"}

C7_SuccessNeverTreatedAsFailure ==
    /\ (Len(calls) >= 1 /\ Successful(1)
           /\ "classification" \in DOMAIN results.steps) =>
          results.steps["classification"] #
             _create_fallback_classification(calls[1].reply.content.s)
    /\ (ReportInvoked /\ Successful(Len(calls))
           /\ "report" \in DOMAIN results.steps) =>
          ~ /\ "is_fallback" \in DOMAIN results.steps["report"].metadata
            /\ results.steps["report"].metadata.error =
                  calls[Len(calls)].reply.content

\* C8: only a pre-stage input failure or a stage-1 failure produces status
\* "error"; a failure inside the severity stage or the report stage is
\* absorbed and the run ends "complete".
C8_OnlyStageOneAborts ==
    results.status = "error" =>
        \/ "encoding" \notin DOMAIN results.steps
        \/ /\ "classification" \in DOMAIN results.steps
           /\ "error" \in DOMAIN results.steps["classification"]

\* C9: every run that ends "complete" carries a report whose full text is
\* non-empty and at least one of whose five sections is non-empty.
C9_CompleteRunHasReport ==
    results.status = "complete" =>
        /\ results.steps["report"].full_report # <<>>
        /\ \E key \in SectionKeys :
              Truthy(results.steps["report"].sections[key])

\* the confidence the rule engine reads is "low"
LowConfidence(classification) ==
    /\ ~PyLower(DictGet(classification, "confidence", PyStr(<<"low">>))).exc
    /\ PyLower(DictGet(classification, "confidence", PyStr(<<"low">>))).val
          = <<"low">>

\* the keyword score of a classification the rule engine accepts
KeywordScoreOf(classification) ==
    keyword_score(PyLower(DictGet(classification, "waste_type", PyStr(<<>>))).val,
                  PyLower(DictGet(classification, "description", PyStr(<<>>))).val)

\* C10: for every classification with confidence "low" the rule engine's
\* score is at least 2: the keyword score less 1, floored at 2.
C10_LowConfidenceFlooredAtTwo ==
    (rres.done /\ LowConfidence(rcls) /\ ~rres.out.exc) =>
        /\ rres.out.val.severity_score.n >= 2
        /\ rres.out.val.severity_score.n =
              (IF KeywordScoreOf(rcls) - 1 > 2 THEN KeywordScoreOf(rcls) - 1 ELSE 2)

\* a low-confidence classification whose keyword score is 2: the floor acts
C10_Witness ==
    /\ rres.done
    /\ LowConfidence(rcls)
    /\ ~rres.out.exc
    /\ KeywordScoreOf(rcls) = 2
    /\ rres.out.val.severity_score.n = 2

----------------------------------------------------------------------------
(* The section-parser harness: _parse_report_sections on every narrative of  *)
(* up to MaxTextLen tokens.                                                  *)

NarrativeTokens ==
    { "Executive Summary:", "Findings:", "Risks:", "Actions:", "Priority Level:",
      "note", BLANK, BOLD, HASH }

Narratives == UNION {[1..n -> NarrativeTokens] : n \in 0..MaxTextLen}

InitSections ==
    /\ PipelineIdle
    /\ dtext \in Narratives
    /\ dres = [via |-> "idle"]
    /\ rcls = EmptySteps
    /\ rres = [done |-> FALSE]

ParseSections ==
    /\ dres.via = "idle"
    /\ dres' = [via |-> "sections", val |-> _parse_report_sections(dtext)]
    /\ UNCHANGED <<pc, inputs, results, calls, decoded, clock, dtext, rcls, rres, shown, modules>>

NextSections == ParseSections

SpecSections == InitSections /\ [][NextSections]_vars

----------------------------------------------------------------------------
(* Claims, continued *)

\* the lower-cased waste type of a classification the rule engine accepts
WasteTypeOf(classification) ==
    PyLower(DictGet(classification, "waste_type", PyStr(<<>>))).val

\* C11 as stated: a waste type that contains both a critical keyword and a
\* low keyword yields score 5, whatever the description and the confidence.
C11_CriticalDominatesLow ==
    (/\ rres.done
     /\ ~rres.out.exc
     /\ AnyKeywordIn(critical_keywords, WasteTypeOf(rcls))
     /\ AnyKeywordIn(low_keywords, WasteTypeOf(rcls))) =>
        rres.out.val.severity_score.n = 5

\* C11, amended: such a waste type yields keyword score 5 whatever the
\* description; the returned score is 5 unless the confidence is "low",
\* when the confidence adjustment makes it 4 (level "high").
C11_CriticalDominatesLowBeforeAdjustment ==
    (/\ rres.done
     /\ ~rres.out.exc
     /\ AnyKeywordIn(critical_keywords, WasteTypeOf(rcls))
     /\ AnyKeywordIn(low_keywords, WasteTypeOf(rcls))) =>
        /\ KeywordScoreOf(rcls) = 5
        /\ rres.out.val.severity_score.n = (IF LowConfidence(rcls) THEN 4 ELSE 5)
        /\ rres.out.val.severity =
              PyStr(<<IF LowConfidence(rcls) THEN "high" ELSE "critical">>)

\* a waste type with "toxic" and "paper", a description with a low keyword
\* and high confidence: the engine returned 5
C11_Witness ==
    /\ rres.done
    /\ ~rres.out.exc
    /\ AnyKeywordIn(critical_keywords, WasteTypeOf(rcls))
    /\ AnyKeywordIn(low_keywords, WasteTypeOf(rcls))
    /\ "description" \in DOMAIN rcls
    /\ rcls.description = PyStr(<<"small", "pile">>)
    /\ ~LowConfidence(rcls)
    /\ rres.out.val.severity_score.n = 5

\* the classification of scenario B: that of scenario A with confidence
\* "low" and waste type "single item paper"
ScenarioB ==
    [ waste_type  |-> PyStr(<<"single item", "paper">>),
      confidence  |-> PyStr(<<"low">>),
      description |-> PyStr(<<"leaking", "battery">>) ]

\* C12 as stated: with the model-based path off, scenario B yields score 2
\* and level "low".
C12_ScenarioBIsLow ==
    (rres.done /\ rres.via = "estimate" /\ rcls = ScenarioB) =>
        /\ ~rres.out.exc
        /\ rres.out.val.severity_score.n = 2
        /\ rres.out.val.severity = PyStr(<<"low">>)

\* C12, amended: the description "leaking battery" holds the critical
\* keyword "battery", so the keyword score is 5 and, after the adjustment
\* for confidence "low", scenario B yields score 4 and level "high",
\* method "rule-based".
C12_ScenarioBIsHigh ==
    (rres.done /\ rres.via = "estimate" /\ rcls = ScenarioB) =>
        /\ ~rres.out.exc
        /\ rres.out.val.severity_score.n = 4
        /\ rres.out.val.severity = PyStr(<<"high">>)
        /\ rres.out.val.method = PyStr(<<"rule-based">>)

\* scenario B was scored through estimate_severity
C12_Witness ==
    /\ rres.done
    /\ rres.via = "estimate"
    /\ rcls = ScenarioB
    /\ ~rres.out.exc
    /\ rres.out.val.severity_score.n = 4

\* C13: for every text x for which parse_json_from_text(x) returns a result
\* r, parse_json_from_text applied to the serialization of r returns a value
\* equal to r.
C13_DecodeIdempotent ==
    dres.via = "again" => PyEq(dres.again, dres.val)

\* no pattern of the parser captures anything in the text
NothingCaptured(text) == \A key \in SectionKeys : SectionCapture(key, text) = <<>>

\* C14: for every narrative, the empty one included, _parse_report_sections
\* returns exactly the five section fields, and whenever all five are empty
\* after pattern matching, executive_summary holds the whole narrative
\* verbatim (and otherwise each field holds what its pattern captured).
C14_NarrativeNeverDropped ==
    dres.via = "sections" =>
        /\ DOMAIN dres.val = SectionKeys
        /\ NothingCaptured(dtext) =>
              /\ dres.val.executive_summary = dtext
              /\ \A key \in SectionKeys \ {"executive_summary"} : dres.val[key] = <<>>
        /\ ~NothingCaptured(dtext) =>
              \A key \in SectionKeys : dres.val[key] = SectionCapture(key, dtext)

\* a narrative with a heading whose capture is empty and no other section:
\* the whole text went to executive_summary
C14_Witness ==
    /\ dres.via = "sections"
    /\ \E i \in DOMAIN dtext : dtext[i] \in Headings["executive_summary"]
    /\ NothingCaptured(dtext)
    /\ dres.val.executive_summary = dtext
    /\ dtext # <<>>

\* C15: the rule engine is total: for every classification stage 1 can
\* produce, estimate_severity_rule_based returns an assessment (here: a run
\* on the rule-based path that got past stage 1 holds a rule-based severity
\* assessment).
C15_RuleEngineTotal ==
    (/\ ~inputs.use_llm_severity
     /\ pc \in {"report", "returned"}
     /\ "classification" \in DOMAIN results.steps) =>
        /\ "severity" \in DOMAIN results.steps
        /\ results.steps["severity"].method = PyStr(<<"rule-based">>)

\* C16: when the image cannot be read or encoded, the run ends with status
\* "error" and an error message before stage 1 begins: no collaborator is
\* invoked, nothing is decoded and the record holds no stage result.
C16_InputFailureAbortsBeforeStageOne ==
    (inputs.image = "unreadable" /\ pc \notin {"encode", "harness"}) =>
        /\ pc \in {"returned", "rendered"}
        /\ results.status = "error"
        /\ "error" \in DOMAIN results
        /\ results.error # <<>>
        /\ calls = <<>>
        /\ decoded = <<>>
        /\ DOMAIN results.steps = {}

\* a run on an unreadable image has returned
C16_Witness ==
    /\ inputs.image = "unreadable"
    /\ pc = "returned"
    /\ results.status = "error"
    /\ results.error[1] = "Failed to encode image:"

\* C17: every classification produced by stage 1 has a confidence among
\* high, medium and low.
C17_ConfidenceInEnum ==
    "classification" \in DOMAIN results.steps =>
        /\ results.steps["classification"].confidence.t = "str"
        /\ results.steps["classification"].confidence.s
              \in {<<"high">>, <<"medium">>, <<"low">>}

\* C18: an aborted run carries a non-empty error string and is never
\* rendered: get_formatted_report returns no text for a record whose status
\* is not "complete", whatever stage results the record holds.
C18_AbortedRunNotRendered ==
    (pc \in {"returned", "rendered"} /\ results.status # "complete") =>
        /\ results.status = "error"
        /\ "error" \in DOMAIN results
        /\ results.error # <<>>
        /\ shown.called => shown.text = PyNone

\* an aborted run that holds the results of two stages was asked for its
\* formatted report
C18_Witness ==
    /\ pc = "rendered"
    /\ results.status = "error"
    /\ {"classification", "severity"} \subseteq DOMAIN results.steps
    /\ shown.called
    /\ shown.text = PyNone

\* ---------------------------------------------------------------------------
\* Two concurrent runs of analyze_image: every run has its own locals (pc,
\* inputs, results, calls are functions of the run); the clock and the module
\* tables are the state the runs share
\* ---------------------------------------------------------------------------
Runs == {"first", "second"}

ConcurrentClassifyResponses ==
    { ErrorResponse(<<"VLM API call failed">>),
      ContentResponse(PyStr(<<"J_cls_haz">>)),
      ContentResponse(PyStr(<<"J_cls_numtype">>)),
      ContentResponse(PyStr(<<"J_cls_numitems">>)) }
ConcurrentSeverityResponses ==
    { ErrorResponse(<<"LLM API call failed">>),
      ContentResponse(PyNone),
      ContentResponse(PyStr(<<"J_sev_numlevel">>)),
      ContentResponse(PyStr(<<"J_sev_high">>)) }
ConcurrentReportResponses ==
    { ErrorResponse(<<"LLM API call failed">>),
      ContentResponse(PyStr(<<"Executive Summary:", "note", BLANK, BOLD,
                              "Findings:", "note">>)) }

InitConcurrent ==
    /\ pc = [r \in Runs |-> "encode"]
    /\ inputs \in [Runs -> [image : Images, location : {<<"Riverside">>},
                            use_llm_severity : BOOLEAN, verbose : BOOLEAN]]
    /\ results = [r \in Runs |-> [status |-> "in_progress", steps |-> EmptySteps]]
    /\ calls = [r \in Runs |-> <<>>]
    /\ decoded = <<>>
    /\ clock = 0
    /\ shown = NotShown
    /\ modules = ModuleTables
    /\ HarnessIdle

TickConcurrent ==
    /\ \E r \in Runs : pc[r] # "returned"
    /\ clock < MaxClock
    /\ clock' = clock + 1
    /\ UNCHANGED <<pc, inputs, results, calls, decoded, dtext, dres, rcls, rres, shown, modules>>

EncodeOf(r) ==
    /\ pc[r] = "encode"
    /\ LET image_base64 == encode_image_to_base64(inputs[r].image)
       IN IF image_base64.exc
          THEN /\ results' = [results EXCEPT ![r] = Failed(@, image_base64.msg)]
               /\ pc' = [pc EXCEPT ![r] = "returned"]
          ELSE /\ results' = [results EXCEPT ![r].steps =
                                 WithKey(@, "encoding", [status |-> "success"])]
               /\ pc' = [pc EXCEPT ![r] = "classify"]
    /\ UNCHANGED <<inputs, calls, decoded, clock, dtext, dres, rcls, rres, shown, modules>>

ClassifyOf(r) ==
    /\ pc[r] = "classify"
    /\ \E response \in ConcurrentClassifyResponses :
          /\ calls' = [calls EXCEPT ![r] =
                          Append(@, [to |-> "classify", reply |-> response])]
          /\ results' = [results EXCEPT ![r].steps =
                            WithKey(@, "classification", classify_waste(response))]
    /\ pc' = [pc EXCEPT ![r] = "severity"]
    /\ UNCHANGED <<inputs, decoded, clock, dtext, dres, rcls, rres, shown, modules>>

SeverityReturnOf(r, response, severity) ==
    /\ modules' = tables_after_severity(modules, severity)
    /\ calls' = IF inputs[r].use_llm_severity
                THEN [calls EXCEPT ![r] =
                         Append(@, [to |-> "severity", reply |-> response])]
                ELSE calls
    /\ IF severity.exc
       THEN /\ results' = [results EXCEPT ![r] = Failed(@, <<severity.msg>>)]
            /\ pc' = [pc EXCEPT ![r] = "returned"]
       ELSE IF inputs[r].verbose /\ PyUpper(severity.val.severity).exc
       THEN /\ results' = [results EXCEPT ![r] =
                              Failed([@ EXCEPT !.steps =
                                         WithKey(@, "severity", severity.val)],
                                     <<"AttributeError">>)]
            /\ pc' = [pc EXCEPT ![r] = "returned"]
       ELSE /\ results' = [results EXCEPT ![r].steps =
                              WithKey(@, "severity", severity.val)]
            /\ pc' = [pc EXCEPT ![r] = "report"]

SeverityOf(r) ==
    /\ pc[r] = "severity"
    /\ \E response \in (IF inputs[r].use_llm_severity
                        THEN ConcurrentSeverityResponses ELSE {NoResponse}) :
          SeverityReturnOf(r, response,
                           estimate_severity(results[r].steps["classification"],
                                             inputs[r].location,
                                             inputs[r].use_llm_severity, response))
    /\ UNCHANGED <<inputs, decoded, clock, dtext, dres, rcls, rres, shown>>

ReportReturnOf(r, response, report) ==
    /\ calls' = IF report_context(results[r].steps["classification"]).exc
                THEN calls
                ELSE [calls EXCEPT ![r] =
                         Append(@, [to |-> "report", reply |-> response])]
    /\ IF report.exc
       THEN results' = [results EXCEPT ![r] = Failed(@, <<report.msg>>)]
       ELSE results' =
               [results EXCEPT ![r] =
                   WithKey([@ EXCEPT
                               !.steps = WithKey(@, "report", report.val),
                               !.status = "complete"],
                           "summary",
                           [ report_id |-> report.val.report_id,
                             waste_type |-> @.steps["classification"].waste_type,
                             severity |-> @.steps["severity"].severity,
                             location |-> inputs[r].location ])]
    /\ pc' = [pc EXCEPT ![r] = "returned"]

ReportOf(r) ==
    /\ pc[r] = "report"
    /\ \E response \in ConcurrentReportResponses :
          ReportReturnOf(r, response,
                         generate_civic_report(results[r].steps["classification"],
                                               results[r].steps["severity"],
                                               inputs[r].location, response,
                                               clock, clock))
    /\ UNCHANGED <<inputs, decoded, clock, dtext, dres, rcls, rres, shown, modules>>

NextConcurrent ==
    \/ TickConcurrent
    \/ \E r \in Runs : EncodeOf(r)
    \/ \E r \in Runs : ClassifyOf(r)
    \/ \E r \in Runs : SeverityOf(r)
    \/ \E r \in Runs : ReportOf(r)

SpecConcurrent == InitConcurrent /\ [][NextConcurrent]_vars

\* the reply a run got from the collaborator of a stage
ReplyOf(r, stage) ==
    LET at == {i \in 1..Len(calls[r]) : calls[r][i].to = stage}
    IN IF at = {} THEN NoResponse ELSE calls[r][CHOOSE i \in at : TRUE].reply

\* what a stage of the run yields when the run is the only one: the stage
\* applied to the run's own inputs and replies
AloneClassification(r) == classify_waste(ReplyOf(r, "classify"))
AloneSeverity(r, classification) ==
    estimate_severity(classification, inputs[r].location,
                      inputs[r].use_llm_severity, ReplyOf(r, "severity"))
AloneReport(r, classification, severity) ==
    generate_civic_report(classification, severity, inputs[r].location,
                          ReplyOf(r, "report"), 0, 0)

RunMatchesAlone(r, steps) ==
    /\ "classification" \in DOMAIN steps =>
          steps["classification"] = AloneClassification(r)
    /\ "severity" \in DOMAIN steps =>
          steps["severity"] = AloneSeverity(r, steps["classification"]).val
    /\ "report" \in DOMAIN steps =>
          steps["report"].sections =
             AloneReport(r, steps["classification"], steps["severity"]).val.sections

DescriptionOf(classification) ==
    PyLower(DictGet(classification, "description", PyStr(<<>>))).val

\* a keyword of the tier occurs in the waste type or else in the description
TierMatches(keywords, classification) ==
    \/ AnyKeywordIn(keywords, WasteTypeOf(classification))
    \/ AnyKeywordIn(keywords, DescriptionOf(classification))

\* the score the tiers give, in the order critical, high, low
TierScore(classification) ==
    IF TierMatches(critical_keywords, classification) THEN 5
    ELSE IF TierMatches(high_keywords, classification) THEN 4
    ELSE IF TierMatches(low_keywords, classification) THEN 2
    ELSE 3

\* C20: before the confidence adjustment the rule engine's score is decided
\* tier by tier, the waste type before the description within a tier: 5 for
\* a critical keyword in either field, otherwise 4 for a high keyword,
\* otherwise 2 for a low keyword, otherwise the baseline 3; the returned
\* score is that score after the adjustment.
C20_ScoreDecidedTierByTier ==
    (rres.done /\ ~rres.out.exc) =>
        /\ KeywordScoreOf(rcls) = TierScore(rcls)
        /\ rres.out.val.severity_score.n =
              (IF ~LowConfidence(rcls) THEN TierScore(rcls)
               ELSE IF TierScore(rcls) - 1 > 2 THEN TierScore(rcls) - 1 ELSE 2)

\* a waste type holding a low keyword only and a description holding a
\* critical keyword, confidence not low: the critical tier decided, score 5
C20_Witness ==
    /\ rres.done
    /\ ~rres.out.exc
    /\ ~LowConfidence(rcls)
    /\ AnyKeywordIn(low_keywords, WasteTypeOf(rcls))
    /\ ~AnyKeywordIn(critical_keywords, WasteTypeOf(rcls))
    /\ ~AnyKeywordIn(high_keywords, WasteTypeOf(rcls))
    /\ AnyKeywordIn(critical_keywords, DescriptionOf(rcls))
    /\ rres.out.val.severity_score.n = 5

\* ---------------------------------------------------------------------------
\* The ladder harness: parse_json_from_text on texts that hold several fenced
\* blocks, over a small alphabet and up to MaxLadderLen tokens
\* ---------------------------------------------------------------------------
LadderTokens == {FENCE, FENCEJSON, "note", BADBRACES, "J_nest3", "J_flat"}

LadderTexts == UNION {[1..n -> LadderTokens] : n \in 0..MaxLadderLen}

InitLadder ==
    /\ PipelineIdle
    /\ dtext \in LadderTexts
    /\ dres = [via |-> "idle"]
    /\ rcls = EmptySteps
    /\ rres = [done |-> FALSE]

DecodeLadder ==
    /\ dres.via = "idle"
    /\ dres' = [via |-> "ladder", val |-> parse_json_from_text(dtext)]
    /\ UNCHANGED <<pc, inputs, results, calls, decoded, clock, dtext, rcls, rres, shown, modules>>

NextLadder == DecodeLadder

SpecLadder == InitLadder /\ [][NextLadder]_vars

\* the positions of the fence markers of a text
FencePositions(text) == {i \in 1..Len(text) : IsFenceOpen(text[i])}

\* the contents of the first fenced block of a text, from its opening marker
\* to the next marker, as a sequence of 0 or 1 texts
FirstBlockContents(text) ==
    LET first == CHOOSE m \in FencePositions(text) :
                    \A x \in FencePositions(text) : m <= x
        later == {i \in FencePositions(text) : i > first}
    IN IF FencePositions(text) = {} \/ later = {} THEN <<>>
       ELSE <<SubSeq(text, first + 1,
                     (CHOOSE m \in later : \A x \in later : m <= x) - 1)>>

\* step (2) read as the claim states it: the first fenced block, parsed as a
\* JSON object
first_block_as_object(blocks) ==
    IF blocks = <<>> THEN Raised("no block")
    ELSE IF json_loads(blocks[1]).exc THEN Raised("JSONDecodeError")
    ELSE IF json_loads(blocks[1]).val.t # "dict" THEN Raised("not an object")
    ELSE json_loads(blocks[1])

\* C21: parse_json_from_text returns the result of the earliest step that
\* succeeds: the whole text parsed as JSON, else the contents of the first
\* fenced code block only, else the brace-delimited candidates with at most
\* one level of nesting in order of appearance, else no result.
C21_LadderTriesFirstBlockOnly ==
    dres.via = "ladder" =>
        dres.val = first_success(json_loads(dtext),
                                 first_block_as_object(FirstBlockContents(dtext)),
                                 BraceCandidates(dtext))

\* the text the classification collaborator returned successfully, if any
ClassifierReturnedText ==
    /\ Len(calls) >= 1
    /\ calls[1].to = "classify"
    /\ ~calls[1].reply.error
    /\ calls[1].reply.choices
    /\ calls[1].reply.content.t = "str"

\* no JSON object with the three required fields can be decoded from the text
NoUsableObject(text) ==
    \/ parse_json_from_text(text).t # "dict"
    \/ ~({"waste_type", "confidence", "description"}
            \subseteq DOMAIN parse_json_from_text(text).d)

\* C22: when the classification collaborator returns text from which no JSON
\* object can be decoded, or whose object lacks waste_type, confidence or
\* description, stage 1 produces a classification with confidence "low"
\* whose description is the raw text unchanged, and the run continues to the
\* severity stage.
C22_UndecodableTextKeptAsDescription ==
    (/\ "classification" \in DOMAIN results.steps
     /\ ClassifierReturnedText
     /\ NoUsableObject(calls[1].reply.content.s)) =>
        /\ results.steps["classification"].confidence = PyStr(<<"low">>)
        /\ results.steps["classification"].description = calls[1].reply.content
        /\ pc \in {"report", "returned", "rendered"} =>
              "severity" \in DOMAIN results.steps

\* the collaborators a run may invoke, in order
InvocationOrder ==
    IF inputs.use_llm_severity
    THEN <<"classify", "severity", "report">>
    ELSE <<"classify", "report">>

\* C23: in every run the sequence of collaborator invocations is a prefix of
\* the classification call, the severity-scoring call, the report-drafting
\* call; each collaborator is invoked at most once, a failed call is never
\* retried, and the severity-scoring collaborator is not invoked when the
\* model-based severity path is off.
C23_InvocationsInOrderAtMostOnce ==
    /\ Len(calls) <= Len(InvocationOrder)
    /\ \A i \in DOMAIN calls : calls[i].to = InvocationOrder[i]
    /\ ~inputs.use_llm_severity => \A i \in DOMAIN calls : calls[i].to # "severity"

\* a returned run whose three invocations were made, every one of them
\* answered with a failure
C23_Witness ==
    /\ pc = "returned"
    /\ inputs.use_llm_severity
    /\ Len(calls) = 3
    /\ \A i \in DOMAIN calls : calls[i].reply.error

\* the record of a run is well formed for the position of the run
RecordWellFormed ==
    /\ results.status \in {"in_progress", "complete", "error"}
    /\ pc \in {"encode", "classify", "severity", "report"} =>
          results.status = "in_progress"
    /\ pc \in {"returned", "rendered"} => results.status \in {"complete", "error"}
    /\ results.status = "complete" =>
          {"classification", "severity", "report"} \subseteq DOMAIN results.steps
    /\ results.status = "error" =>
          "error" \in DOMAIN results /\ results.error # <<>>

\* the step that changes the status is the step that returns the record
StatusChangesOnReturn ==
    /\ results.status # "in_progress" => results'.status = results.status
    /\ results'.status # results.status => pc # "returned" /\ pc' = "returned"

\* C24: analyze_image always returns a record and never raises: the status
\* starts as "in_progress", changes exactly once, and the returned record
\* has status "complete" or "error"; "complete" only if the record holds a
\* classification, a severity and a report, "error" only if it holds an
\* error message.
C24_AlwaysReturnsARecord ==
    [](RecordWellFormed) /\ [][StatusChangesOnReturn]_vars

\* a run returned with status "error" after its classification was recorded
C24_Witness ==
    /\ pc = "returned"
    /\ results.status = "error"
    /\ "classification" \in DOMAIN results.steps
    /\ results.error # <<>>

\* the level the claim pairs with each score the rule engine can return
LevelOfReturnedScore ==
    [n \in 2..5 |-> <<"low", "medium", "high", "critical">>[n - 1]]

\* C25: the rule engine never returns score 1 or level "minimal": for every
\* classification it returns a score in {2, 3, 4, 5} with level low, medium,
\* high or critical respectively.
C25_RuleEngineNeverMinimal ==
    (rres.done /\ ~rres.out.exc) =>
        /\ rres.out.val.severity_score.n \in 2..5
        /\ rres.out.val.severity =
              PyStr(<<LevelOfReturnedScore[rres.out.val.severity_score.n]>>)
        /\ rres.out.val.severity # PyStr(<<"minimal">>)

\* the lowest case: a low keyword only and confidence "low", scored by the
\* rule engine itself, returned 2 and "low"
C25_Witness ==
    /\ rres.done
    /\ rres.via = "rule_based"
    /\ ~rres.out.exc
    /\ LowConfidence(rcls)
    /\ TierScore(rcls) = 2
    /\ rres.out.val.severity_score.n = 2
    /\ rres.out.val.severity = PyStr(<<"low">>)

\* C26: report identifiers identify runs: any two distinct runs that reach
\* the report stage, on the model path or the fallback-template path,
\* receive different report_id values.
C26_ReportIdsIdentifyRuns ==
    \A r1, r2 \in Runs :
        (/\ r1 # r2
         /\ "report" \in DOMAIN results[r1].steps
         /\ "report" \in DOMAIN results[r2].steps) =>
            results[r1].steps["report"].report_id
               # results[r2].steps["report"].report_id

====
